---- MODULE Spec2Model ----
(***************************************************************************)
(* Model of three pieces of the lie-vae repository:                        *)
(*   - the epoch loop of lie_vae/main.py (checkpointing, early stopping),  *)
(*   - the construction and the forward calls of supervised_experiment.py  *)
(*     (ActionNet / MLPNet / Encoder / DeconvNet, encode, train, test),    *)
(*   - ShapeDataset.__getitem__ and filename_to_quaternion.                *)
(* Each piece has its own specification (SpecMain, SpecSup, SpecData); the *)
(* variables of the other pieces are idle in it.                           *)
(***************************************************************************)
EXTENDS Integers, Sequences, FiniteSets

VARIABLES
    \* ---- lie_vae/main.py, main(), lines 132-147
    args,               \* parsed arguments the loop reads
    epoch,              \* the loop variable: the next epoch of range()
    early_stop_counter, \* line 132
    best_value,         \* experiment.best_value
    model_state,        \* the parameters model.state_dict() would return
    checkpoint,         \* content of save_dir/model.pickle (NoFile if absent)
    pc,                 \* "loop" | "closed" | "idle"
    broke,              \* TRUE once the loop was left through break
    epoch_log,          \* history: one entry per trained epoch
    initial_checkpoint  \* history: checkpoint when the loop started

VARIABLES
    \* ---- supervised_experiment.py, main(), train(), test()
    sup_args,           \* parsed arguments
    deconv,             \* the DeconvNet built at line 290
    net,                \* the decoder: ActionNet or MLPNet
    encoder,            \* None, or the Encoder built at line 310
    sup_pc,             \* "parsed" | "train" | "test" | "done" | "crashed" | "idle"
    it,                 \* batches consumed from the loader being iterated
    call                \* None, or the record of the latest encode + decoder call

mainVars == <<args, epoch, early_stop_counter, best_value, model_state,
              checkpoint, pc, broke, epoch_log, initial_checkpoint>>

VARIABLES
    \* ---- ShapeDataset (lie_vae/datasets.py and supervised_experiment.py)
    files,              \* self.files: the filenames, each a sequence of characters
    item                \* None, or the outcome of the latest __getitem__

supVars == <<sup_args, deconv, net, encoder, sup_pc, it, call>>

dataVars == <<files, item>>

vars == <<mainVars, supVars, dataVars>>

\* ------------------------------------------------------------------ bounds
MaxEpochs == 5
MaxEarlyStop == 3
MaxContinue == 2
MaxIdDims == 11
MaxDegrees == 2
MaxDataDims == 2
MaxBatch == 1
NumBatches == 2
MaxPieces == 5

\* ================================================================ main.py
\* An optional value: None is the empty tuple, Some(x) the one-element tuple.
None == <<>>
Some(x) == <<x>>

\* model.pickle absent / written by an earlier run / written after epoch e.
NoFile == <<"none", 0>>
PriorRun == <<"prior", 0>>
FreshModel == <<"fresh", 0>>
AfterEpoch(e) == <<"epoch", e>>

\* parse_args: the arguments the epoch loop reads.  max_early_stop is an int
\* (default 50) or None; save_dir is set or not.
MainArgs ==
    [save_dir : BOOLEAN,
     max_early_stop : {None} \cup {Some(n) : n \in 0..MaxEarlyStop},
     continue_epoch : 0..MaxContinue,
     epochs : 0..MaxEpochs]

\* Line 138: the condition under which model.pickle is written.
ShouldSaveAlways(max_early_stop, previous_best_value, new_best_value) == TRUE
ShouldSave(max_early_stop, previous_best_value, new_best_value) ==
    max_early_stop = None \/ previous_best_value # new_best_value

\* Line 143: the condition under which the epoch is counted and the loop goes on.
MayContinue(max_early_stop, counter) ==
    max_early_stop # None /\ counter < max_early_stop[1]

\* The state when the loop is entered (after lines 83-86 and 132): with
\* continue_epoch > 0 the model was loaded from save_dir/model.pickle, which
\* therefore exists (torch.load raises otherwise, and os.path.join raises on a
\* save_dir of None).  A run with continue_epoch = 0 starts from a fresh model
\* and a save_dir holding no model.pickle.
MainStart ==
    /\ args \in MainArgs
    /\ args.continue_epoch > 0 => args.save_dir
    /\ checkpoint = IF args.continue_epoch > 0 THEN PriorRun ELSE NoFile
    /\ model_state = IF args.continue_epoch > 0 THEN PriorRun ELSE FreshModel
    /\ initial_checkpoint = checkpoint
    /\ epoch = args.continue_epoch
    /\ early_stop_counter = 0
    /\ best_value = 0
    /\ pc = "loop"
    /\ broke = FALSE
    /\ epoch_log = <<>>

\* One iteration of the loop, lines 133-146.  experiment.train(epoch) changes the
\* model and may change experiment.best_value (improved).
TrainEpoch(improved) ==
    /\ pc = "loop"
    /\ epoch < args.epochs
    /\ LET previous_best_value == best_value
           new_best_value == IF improved THEN best_value + 1 ELSE best_value
           new_model == AfterEpoch(epoch)
           save == args.save_dir
                   /\ ShouldSave(args.max_early_stop, previous_best_value, new_best_value)
           count == args.save_dir /\ ~save
                    /\ MayContinue(args.max_early_stop, early_stop_counter)
           break == args.save_dir /\ ~save /\ ~count
       IN /\ best_value' = new_best_value
          /\ model_state' = new_model
          /\ checkpoint' = IF save THEN new_model ELSE checkpoint
          /\ early_stop_counter' = IF count THEN early_stop_counter + 1
                                   ELSE early_stop_counter
          /\ epoch' = IF break THEN epoch ELSE epoch + 1
          /\ pc' = IF break THEN "closed" ELSE "loop"
          /\ broke' = break
          /\ epoch_log' = Append(epoch_log,
                 [epoch |-> epoch, improved |-> improved, saved |-> save])
    /\ UNCHANGED <<args, initial_checkpoint>>
    /\ UNCHANGED <<supVars, dataVars>>

\* range() is exhausted: line 147, log.close().
LoopEnd ==
    /\ pc = "loop"
    /\ epoch >= args.epochs
    /\ pc' = "closed"
    /\ UNCHANGED <<args, epoch, early_stop_counter, best_value, model_state,
                   checkpoint, broke, epoch_log, initial_checkpoint>>
    /\ UNCHANGED <<supVars, dataVars>>

NextMain ==
    \/ \E improved \in BOOLEAN : TrainEpoch(improved)
    \/ LoopEnd

\* The main loop is not running.
MainIdle ==
    /\ args = None
    /\ epoch = 0
    /\ early_stop_counter = 0
    /\ best_value = 0
    /\ model_state = NoFile
    /\ checkpoint = NoFile
    /\ pc = "idle"
    /\ broke = FALSE
    /\ epoch_log = <<>>
    /\ initial_checkpoint = NoFile

\* No dataset is being read.
DataIdle ==
    /\ files = <<>>
    /\ item = None

\* ================================================= supervised_experiment.py
\* Python truthiness of an int argument (--ae, --single_id, id_dims).
Truthy(x) == x # 0

\* Sizes fixed in the source.
KernelSize == 4
ImageSize == 64
EyeSize == 10
NumSelected == 10
AlgebraDims == 3

\* parse_args, lines 361-383.  A --mode other than action and mlp is accepted
\* by the parser and refused at line 306.
SupArgs ==
    [mode : {"action", "mlp", "other"},
     mlp_mode : {"MAT", "Q", "EA"},
     ae : {0, 1},
     single_id : {0, 1},
     id_dims : 0..MaxIdDims,
     degrees : 0..MaxDegrees,
     data_dims : 1..MaxDataDims]

\* A layer (kernel, stride, padding).
Layer(k, s, p) == [k |-> k, s |-> s, p |-> p]

\* Encoder.conv, lines 94-112: the five Conv2d layers.
EncoderLayers ==
    <<Layer(KernelSize, 2, 1), Layer(KernelSize, 2, 1), Layer(KernelSize, 2, 1),
      Layer(KernelSize, 2, 1), Layer(KernelSize, 1, 0)>>

\* DeconvNet, lines 127-137: the five ConvTranspose2d layers.
DeconvLayers ==
    <<Layer(KernelSize, 1, 0), Layer(KernelSize, 2, 1), Layer(KernelSize, 2, 1),
      Layer(KernelSize, 2, 1), Layer(KernelSize, 2, 1)>>

\* Output size of nn.Conv2d along one spatial axis (dilation 1).
ConvOut(size, l) == (size + 2 * l.p - l.k) \div l.s + 1

\* Output size of nn.ConvTranspose2d along one spatial axis (dilation 1, no
\* output padding).
ConvTransposeOutNoPadding(size, l) == (size - 1) * l.s + l.k
ConvTransposeOut(size, l) == (size - 1) * l.s - 2 * l.p + l.k

\* The spatial sizes after each layer of a stack.
RECURSIVE ConvSizes(_, _)
ConvSizes(size, layers) ==
    IF layers = <<>> THEN <<>>
    ELSE <<ConvOut(size, Head(layers))>>
         \o ConvSizes(ConvOut(size, Head(layers)), Tail(layers))

RECURSIVE DeconvSizes(_, _)
DeconvSizes(size, layers) ==
    IF layers = <<>> THEN <<>>
    ELSE <<ConvTransposeOut(size, Head(layers))>>
         \o DeconvSizes(ConvTransposeOut(size, Head(layers)), Tail(layers))

\* Conv2d raises when the padded input is smaller than the kernel.
RECURSIVE ConvFits(_, _)
ConvFits(size, layers) ==
    \/ layers = <<>>
    \/ /\ size + 2 * Head(layers).p >= Head(layers).k
       /\ ConvFits(ConvOut(size, Head(layers)), Tail(layers))

\* Line 289, main: matrix_dims = (args.degrees + 1) ** 2.
MatrixDims(degrees) == (degrees + 1) * (degrees + 1)

\* Line 147, ActionNet.__init__: self.matrix_dims = (degrees + 1) ** 2.
ActionMatrixDims(degrees) == (degrees + 1) * (degrees + 1)

\* Line 184, MLPNet.__init__: matrix_dims = (degrees + 1) ** 2.
MLPMatrixDims(degrees) == (degrees + 1) * (degrees + 1)

\* Line 186: the width of the rotation code MLPNet reads.
ModeDims(mlp_mode) ==
    CASE mlp_mode = "MAT" -> 9
      [] mlp_mode = "Q" -> 4
      [] mlp_mode = "EA" -> 3

\* DeconvNet(in_dims, hidden_dims), line 290.
NewDeconvNet(in_dims) == [in_dims |-> in_dims, layers |-> DeconvLayers]

\* MLP(input, output, hidden, layers) of lie_vae.utils: only its input and
\* output widths matter here.
NewMLP(in_dims, out_dims) == [in_dims |-> in_dims, out_dims |-> out_dims]

\* ActionNet.__init__, lines 142-156.
NewActionNet(degrees, dc, id_dims, data_dims, single_id) ==
    [kind |-> "action",
     degrees |-> degrees,
     data_dims |-> data_dims,
     matrix_dims |-> ActionMatrixDims(degrees),
     item_rep |-> IF Truthy(single_id)
                  THEN Some(<<ActionMatrixDims(degrees), data_dims>>)
                  ELSE None,
     harmonics_encoder |-> IF Truthy(single_id) THEN None
                           ELSE Some(NewMLP(id_dims, ActionMatrixDims(degrees) * data_dims)),
     deconv |-> dc]

\* MLPNet.__init__, lines 181-193.
NewMLPNet(degrees, dc, data_dims, mlp_mode, id_dims, single_id) ==
    [kind |-> "mlp",
     mode |-> mlp_mode,
     mlp |-> NewMLP(IF ~Truthy(single_id) THEN ModeDims(mlp_mode) + id_dims
                    ELSE ModeDims(mlp_mode),
                    MLPMatrixDims(degrees) * data_dims),
     single_id |-> single_id,
     deconv |-> dc]

\* Encoder.__init__, lines 89-112.
NewEncoder(id_dims) ==
    [id_dims |-> id_dims, nout |-> AlgebraDims + id_dims, conv |-> EncoderLayers]

\* Line 309: the id_dims the Encoder is built with.
EncoderIdDimsIgnoringSingle(a) == a.id_dims
EncoderIdDims(a) == IF ~Truthy(a.single_id) THEN a.id_dims ELSE 0

SupStart ==
    /\ sup_args \in SupArgs
    /\ deconv = None
    /\ net = None
    /\ encoder = None
    /\ sup_pc = "parsed"
    /\ it = 0
    /\ call = None

SupIdle ==
    /\ sup_args = None
    /\ deconv = None
    /\ net = None
    /\ encoder = None
    /\ sup_pc = "idle"
    /\ it = 0
    /\ call = None

\* main(), lines 289-312: build the deconv stack, the decoder and the encoder.
Construct ==
    /\ sup_pc = "parsed"
    /\ LET a == sup_args
           dc == NewDeconvNet(MatrixDims(a.degrees) * a.data_dims)
       IN IF a.mode \notin {"action", "mlp"}
          THEN /\ sup_pc' = "crashed"
               /\ UNCHANGED <<deconv, net, encoder>>
          ELSE /\ deconv' = dc
               /\ net' = IF a.mode = "action"
                         THEN NewActionNet(a.degrees, dc, a.id_dims, a.data_dims,
                                           a.single_id)
                         ELSE NewMLPNet(a.degrees, dc, a.data_dims, a.mlp_mode,
                                        a.id_dims, a.single_id)
               /\ encoder' = IF Truthy(a.ae) THEN Some(NewEncoder(EncoderIdDims(a)))
                             ELSE None
               /\ sup_pc' = "train"
    /\ UNCHANGED <<sup_args, it, call>>
    /\ UNCHANGED <<mainVars, dataVars>>

\* Encoder.forward, lines 114-121, on a batch of n images of ImageSize x
\* ImageSize: the conv stack, the spatial position [0, 0], the split into the
\* algebra part and the content code.
EncoderForward(enc, n) ==
    [error |-> IF ConvFits(ImageSize, enc.conv) THEN None ELSE Some("RuntimeError"),
     rot |-> <<n, 3, 3>>,
     id_data |-> IF Truthy(enc.id_dims) THEN Some(<<n, enc.nout - AlgebraDims>>)
                 ELSE None,
     conv_sizes |-> ConvSizes(ImageSize, enc.conv),
     label |-> None]

\* encode, lines 215-224.  item_label holds one label per image of the batch;
\* torch.eye(10)[item_label] raises IndexError on a label outside the table.
Encode(enc, single_id, item_label, n) ==
    IF enc # None
    THEN EncoderForward(enc[1], n)
    ELSE [error |-> IF ~Truthy(single_id) /\ item_label \notin 0..(EyeSize - 1)
                    THEN Some("IndexError") ELSE None,
          rot |-> <<n, 3, 3>>,
          id_data |-> IF ~Truthy(single_id) THEN Some(<<n, EyeSize>>) ELSE None,
          conv_sizes |-> <<>>,
          label |-> IF ~Truthy(single_id) THEN Some(item_label) ELSE None]

\* Lines 160-161: ActionNet.forward's assertion.
ActionAssert(id_data, item_rep) == (id_data # None) # (item_rep # None)

\* Lines 197-198: MLPNet.forward's assertion.
MLPAssert(id_data, single_id) == (id_data = None) # (~Truthy(single_id))

\* self.deconv(x[:, :, None, None])[:, 0, :, :] (lines 175-176 and 212): x has
\* `width` columns, the deconv stack maps the 1x1 input to its output size.
DeconvForward(dc, rows, width) ==
    IF width # dc.in_dims
    THEN [result |-> "RuntimeError", fed_width |-> Some(width),
          deconv_sizes |-> <<>>, recon |-> None]
    ELSE LET sizes == DeconvSizes(1, dc.layers)
         IN [result |-> "ok", fed_width |-> Some(width), deconv_sizes |-> sizes,
             recon |-> Some(<<rows, sizes[Len(sizes)], sizes[Len(sizes)]>>)]

Failed(error) ==
    [result |-> error, fed_width |-> None, deconv_sizes |-> <<>>, recon |-> None]

\* ActionNet.forward, lines 158-176.  block_wigner_matrix_multiply (lie_tools)
\* multiplies harmonics by square block matrices, so its result has the
\* elements of harmonics; .view(-1, matrix_dims * data_dims) flattens it.
ActionForward(d, rot, id_data) ==
    IF ~ActionAssert(id_data, d.item_rep) THEN Failed("AssertionError")
    ELSE LET n == rot[1]
             width == d.matrix_dims * d.data_dims
         IN IF id_data # None /\ id_data[1][2] # d.harmonics_encoder[1].in_dims
            THEN Failed("RuntimeError")
            ELSE IF id_data # None /\ d.harmonics_encoder[1].out_dims # width
            THEN Failed("RuntimeError")
            ELSE DeconvForward(d.deconv, n, width)

\* MLPNet.forward, lines 195-212.
MLPForward(d, r, id_data) ==
    IF ~MLPAssert(id_data, d.single_id) THEN Failed("AssertionError")
    ELSE LET n == r[1]
             x == IF id_data # None THEN ModeDims(d.mode) + id_data[1][2]
                  ELSE ModeDims(d.mode)
         IN IF x # d.mlp.in_dims THEN Failed("RuntimeError")
            ELSE DeconvForward(d.deconv, n, d.mlp.out_dims)

\* decoder(rot, id_data), lines 236 and 253.
DecoderForward(d, rot, id_data) ==
    IF d.kind = "action" THEN ActionForward(d, rot, id_data)
    ELSE MLPForward(d, rot, id_data)

\* Lines 252-255 of train and 235-237 of test: encode, decode, MSE loss against
\* the batch of images.
Step(who, item_label, n) ==
    LET e == Encode(encoder, sup_args.single_id, item_label, n)
        f == IF e.error # None THEN Failed(e.error[1])
             ELSE DecoderForward(net, e.rot, e.id_data)
        loss_ok == f.recon = Some(<<n, ImageSize, ImageSize>>)
    IN [who |-> who,
        n |-> n,
        label |-> e.label,
        id_data |-> e.id_data,
        conv_sizes |-> e.conv_sizes,
        decoded |-> e.error = None,
        fed_width |-> f.fed_width,
        deconv_sizes |-> f.deconv_sizes,
        recon |-> f.recon,
        result |-> IF f.result = "ok" /\ ~loss_ok THEN "RuntimeError" ELSE f.result]

\* The labels SelectedDataset.map gives the items (lines 77-85).
Labels == 0..(NumSelected - 1)

\* One iteration of train's loop, lines 245-272; after the last batch of the
\* loader train calls test (line 270).
TrainIter(item_label, n) ==
    /\ sup_pc = "train"
    /\ it < NumBatches
    /\ LET c == Step("train", item_label, n)
       IN /\ call' = Some(c)
          /\ IF c.result # "ok"
             THEN sup_pc' = "crashed" /\ it' = it
             ELSE IF it + 1 = NumBatches
             THEN sup_pc' = "test" /\ it' = 0
             ELSE sup_pc' = "train" /\ it' = it + 1
    /\ UNCHANGED <<sup_args, deconv, net, encoder>>
    /\ UNCHANGED <<mainVars, dataVars>>

\* One iteration of test's loop, lines 232-238.
TestIter(item_label, n) ==
    /\ sup_pc = "test"
    /\ it < NumBatches
    /\ LET c == Step("test", item_label, n)
       IN /\ call' = Some(c)
          /\ IF c.result # "ok"
             THEN sup_pc' = "crashed" /\ it' = it
             ELSE IF it + 1 = NumBatches
             THEN sup_pc' = "done" /\ it' = 0
             ELSE sup_pc' = "test" /\ it' = it + 1
    /\ UNCHANGED <<sup_args, deconv, net, encoder>>
    /\ UNCHANGED <<mainVars, dataVars>>

NextSup ==
    \/ Construct
    \/ \E item_label \in Labels, n \in 1..MaxBatch : TrainIter(item_label, n)
    \/ \E item_label \in Labels, n \in 1..MaxBatch : TestIter(item_label, n)

InitSup == SupStart /\ MainIdle /\ DataIdle

SpecSup == InitSup /\ [][NextSup]_vars

\* ------------------------------------- properties of the supervised experiment
\* Whether the decoder was built with single_id true.
BuiltSingleId(d) ==
    IF d.kind = "action" THEN d.item_rep # None ELSE Truthy(d.single_id)

\* C2: with id_dims > 0, every decoder forward call of train and test passes the
\* 'Either must be single id or provide id_data, not both' assertion: encode's
\* id_data is None exactly when the decoder was built with single_id true.
C2_DecoderAssertionHolds ==
    (call # None /\ call[1].decoded /\ sup_args.id_dims > 0) =>
        /\ call[1].result # "AssertionError"
        /\ (call[1].id_data = None) <=> BuiltSingleId(net)

\* Both kinds of call were made with id_dims > 0: an auto-encoding one whose
\* Encoder produced a content code, by test.
C2_EncoderCodeReachesDecoder ==
    /\ call # None
    /\ call[1].who = "test"
    /\ sup_args.id_dims > 0
    /\ sup_args.ae = 1
    /\ sup_args.single_id = 0
    /\ call[1].id_data # None
    /\ call[1].result = "ok"

\* C3: with single_id false the content code handed to the decoder has exactly
\* id_dims columns, from the Encoder and from the one-hot table alike, so it
\* fits the input width the decoder was built with, and every item label
\* indexes a row of the one-hot table (stated here for id_dims >= 1).
C3_IdDataHasIdDimsColumns ==
    (call # None /\ ~Truthy(sup_args.single_id) /\ sup_args.id_dims >= 1) =>
        /\ call[1].result # "IndexError"
        /\ call[1].id_data # None =>
              /\ call[1].id_data[1][2] = sup_args.id_dims
              /\ net.kind = "action" =>
                    call[1].id_data[1][2] = net.harmonics_encoder[1].in_dims
              /\ net.kind = "mlp" =>
                    ModeDims(net.mode) + call[1].id_data[1][2] = net.mlp.in_dims

\* What the code does: the one-hot code always has EyeSize columns, the
\* Encoder's code has id_dims columns, and the call fails in the decoder's first
\* linear layer whenever the width is not the one the decoder was built with.
C3_OneHotWidthIsFixed ==
    (call # None /\ call[1].id_data # None) =>
        /\ call[1].id_data[1][2] =
              IF sup_args.ae = 0 THEN EyeSize ELSE sup_args.id_dims
        /\ (sup_args.ae = 0 /\ sup_args.id_dims # EyeSize)
              => call[1].result = "RuntimeError"

\* C4: the deconv stack maps 1x1 to 64x64 through 4, 8, 16, 32; Encoder.conv
\* maps 64x64 through 32, 16, 8, 4 to 1x1; and the width each decoder feeds to
\* the deconv stack is its input width (degrees + 1)^2 * data_dims.
C4_LayerGeometry ==
    call # None =>
        /\ call[1].fed_width # None =>
              /\ call[1].fed_width[1] = deconv.in_dims
              /\ deconv.in_dims =
                    (sup_args.degrees + 1) * (sup_args.degrees + 1) * sup_args.data_dims
              /\ call[1].deconv_sizes = <<4, 8, 16, 32, 64>>
              /\ call[1].recon = Some(<<call[1].n, 64, 64>>)
        /\ encoder # None => call[1].conv_sizes = <<32, 16, 8, 4, 1>>

\* An auto-encoding call through ActionNet with degrees >= 1 that reconstructed.
C4_ReconstructionMade ==
    /\ call # None
    /\ encoder # None
    /\ net.kind = "action"
    /\ sup_args.degrees >= 1
    /\ sup_args.data_dims >= 2
    /\ call[1].result = "ok"
    /\ call[1].recon # None

\* ============================================================ ShapeDataset
\* A filename is a sequence of characters.  The filenames of the model are made
\* of up to MaxPieces pieces: an object name, quaternion components with and
\* without a sign, a fraction that overlaps the component before it, a number
\* that is no component, and the extension.
Pieces ==
    { <<"c", ".", "o", "b", "j">>,
      <<"_", "0", ".", "0", "0", "0", "1">>,
      <<"_", "-", "0", ".", "1", "5", "2", "3">>,
      <<".", "5", "6", "1", "6">>,
      <<"_", "2", ".", "7">>,
      <<".", "j", "p", "g">> }

RECURSIVE FileNames(_)
FileNames(k) ==
    IF k = 0 THEN {<<>>}
    ELSE FileNames(k - 1) \cup {n \o q : n \in FileNames(k - 1), q \in Pieces}

Digits == <<"0", "1", "2", "3", "4", "5", "6", "7", "8", "9">>

IsDigit(c) == \E d \in 1..Len(Digits) : Digits[d] = c

DigitValue(c) == (CHOOSE d \in 1..Len(Digits) : Digits[d] = c) - 1

\* [01]\.[0-9]{4} at position j of s.
UnsignedAt(s, j) ==
    /\ j >= 1
    /\ j + 5 <= Len(s)
    /\ s[j] \in {"0", "1"}
    /\ s[j + 1] = "."
    /\ \A k \in 2..5 : IsDigit(s[j + k])

\* The length of the match of -?[01]\.[0-9]{4} that starts at position i of s,
\* 0 when none starts there.
MatchLen(s, i) ==
    IF s[i] = "-" THEN (IF UnsignedAt(s, i + 1) THEN 7 ELSE 0)
    ELSE IF UnsignedAt(s, i) THEN 6 ELSE 0

\* re.findall(r'-?[01]\.[0-9]{4}', s) from position i on: the matches from left
\* to right, each search starting where the match before it ended.
RECURSIVE FindAll(_, _)
FindAll(s, i) ==
    IF i > Len(s) THEN <<>>
    ELSE IF MatchLen(s, i) > 0
    THEN <<SubSeq(s, i, i + MatchLen(s, i) - 1)>> \o FindAll(s, i + MatchLen(s, i))
    ELSE FindAll(s, i + 1)

\* float(x) of a match, in units of 0.0001.
Float(x) ==
    LET u == IF x[1] = "-" THEN Tail(x) ELSE x
        magnitude == DigitValue(u[1]) * 10000 + DigitValue(u[3]) * 1000
                     + DigitValue(u[4]) * 100 + DigitValue(u[5]) * 10
                     + DigitValue(u[6])
    IN IF x[1] = "-" THEN 0 - magnitude ELSE magnitude

\* filename_to_quaternion (datasets.py lines 52-56, supervised_experiment.py
\* lines 67-71): the floats, or the failed assertion.
FirstFourMatches(filename) ==
    LET matches == FindAll(filename, 1)
    IN IF Len(matches) < 4
       THEN [raised |-> Some("No quaternion found in"), value |-> <<>>]
       ELSE [raised |-> None, value |-> [k \in 1..4 |-> Float(matches[k])]]
filename_to_quaternion(filename) ==
    LET matches == FindAll(filename, 1)
    IN IF Len(matches) # 4
       THEN [raised |-> Some("No quaternion found in"), value |-> <<>>]
       ELSE [raised |-> None, value |-> [k \in 1..Len(matches) |-> Float(matches[k])]]

\* re.search(r'([A-z0-9]+)\.obj', filename) finds a match: ".obj" preceded by at
\* least one character of the class ([A-z] holds the letters and [ \ ] ^ _ `).
NameChars ==
    {"c", "o", "b", "j", "p", "g", "_"} \cup {Digits[d] : d \in 1..Len(Digits)}

HasObjectName(s) ==
    \E i \in 2..Len(s) :
        /\ i + 3 <= Len(s)
        /\ SubSeq(s, i, i + 3) = <<".", "o", "b", "j">>
        /\ s[i - 1] \in NameChars

DataStart ==
    /\ files \in {<<f>> : f \in FileNames(MaxPieces)}
    /\ item = None

\* ShapeDataset.__getitem__ (datasets.py lines 32-50, supervised_experiment.py
\* lines 48-64): the quaternion is read first, then the object name.
GetItem(idx) ==
    /\ idx \in 1..Len(files)
    /\ LET filename == files[idx]
           quaternion == filename_to_quaternion(filename)
       IN item' = Some(
              IF quaternion.raised # None
              THEN [idx |-> idx, raised |-> quaternion.raised, quaternion |-> <<>>]
              ELSE IF ~HasObjectName(filename)
              THEN [idx |-> idx,
                    raised |-> Some("Could not find object id from filename"),
                    quaternion |-> <<>>]
              ELSE [idx |-> idx, raised |-> None, quaternion |-> quaternion.value])
    /\ UNCHANGED files
    /\ UNCHANGED <<mainVars, supVars>>

NextData == \E idx \in 1..Len(files) : GetItem(idx)

InitData == DataStart /\ MainIdle /\ SupIdle

SpecData == InitData /\ [][NextData]_vars

\* --------------------------------------------------- properties of ShapeDataset
\* A token: optional '-', a digit 0 or 1, '.', four digits.
IsToken(t) ==
    \/ /\ Len(t) = 6
       /\ t[1] \in {"0", "1"}
       /\ t[2] = "."
       /\ \A k \in 3..6 : IsDigit(t[k])
    \/ /\ Len(t) = 7
       /\ t[1] = "-"
       /\ t[2] \in {"0", "1"}
       /\ t[3] = "."
       /\ \A k \in 4..7 : IsDigit(t[k])

\* The occurrences <<first, last>> of a token in s.
Occurrences(s) ==
    {o \in {<<i, i + l>> : i \in 1..Len(s), l \in {5, 6}} :
        o[2] <= Len(s) /\ IsToken(SubSeq(s, o[1], o[2]))}

\* The tokens of s read from left to right: an occurrence counts unless it
\* starts inside one that counts and starts before it.
IsReading(P, occurrences) ==
    \A o \in occurrences :
        o \in P <=> ~\E q \in P : q[1] < o[1] /\ o[1] <= q[2]

Tokens(s) ==
    LET occurrences == Occurrences(s)
    IN CHOOSE P \in SUBSET occurrences : IsReading(P, occurrences)

\* The k-th of the tokens T of s from the left.
TokenNumber(s, T, k) ==
    LET o == CHOOSE o \in T : Cardinality({q \in T : q[1] < o[1]}) = k - 1
    IN SubSeq(s, o[1], o[2])

InitMain == MainStart /\ SupIdle /\ DataIdle

SpecMain == InitMain /\ [][NextMain]_vars

\* ------------------------------------------------- properties of the epoch loop
\* The indices of the improving epochs in a log.
Improving(log) == {i \in 1..Len(log) : log[i].improved}

Last(S) == CHOOSE i \in S : \A j \in S : j <= i

\* The number of epochs trained since the last improving epoch (all of them when
\* none improved).
SinceImprove(log) ==
    IF Improving(log) = {} THEN Len(log) ELSE Len(log) - Last(Improving(log))

\* C1: with save_dir set and max_early_stop = N, the loop breaks only when at
\* least N epochs have passed since the last improving epoch, and once N epochs
\* without improvement have passed no further epoch is trained.
C1_StopsAfterNWithoutImprovement ==
    (args.save_dir /\ args.max_early_stop # None /\ args.max_early_stop[1] >= 1) =>
        /\ broke => SinceImprove(epoch_log) >= args.max_early_stop[1]
        /\ SinceImprove(epoch_log) >= args.max_early_stop[1]
              => ~(pc = "loop" /\ epoch < args.epochs)

\* What the code does instead: the loop breaks at the first non-improving epoch
\* after max_early_stop non-improving epochs in total (early_stop_counter is never
\* reset), so it breaks exactly when the log holds max_early_stop + 1 of them.
NonImproving(log) == {i \in 1..Len(log) : ~log[i].improved}

C1_CodeBreaksOnTotalCount ==
    (args.save_dir /\ args.max_early_stop # None) =>
        /\ early_stop_counter =
              IF broke THEN args.max_early_stop[1]
              ELSE Cardinality(NonImproving(epoch_log))
        /\ broke <=> Cardinality(NonImproving(epoch_log)) = args.max_early_stop[1] + 1

\* A break with fewer than N epochs since the last improving epoch.
C1_BreakSoonAfterImprovement ==
    /\ broke
    /\ args.max_early_stop # None
    /\ SinceImprove(epoch_log) < args.max_early_stop[1]

\* C6 as stated: with save_dir set and max_early_stop not None, an epoch writes
\* model.pickle iff it changed best_value, so after the epochs trained so far
\* the file holds the model of the most recent improving epoch, and no file
\* exists when none of them improved; with max_early_stop None every epoch
\* writes it.
C6_CheckpointOrNoFile ==
    args.save_dir =>
        IF args.max_early_stop # None
        THEN /\ \A i \in 1..Len(epoch_log) :
                    epoch_log[i].saved <=> epoch_log[i].improved
             /\ epoch_log # <<>> => checkpoint =
                    IF Improving(epoch_log) = {} THEN NoFile
                    ELSE AfterEpoch(epoch_log[Last(Improving(epoch_log))].epoch)
        ELSE /\ \A i \in 1..Len(epoch_log) : epoch_log[i].saved
             /\ epoch_log # <<>> => checkpoint = model_state

\* C6 amended: when no epoch improved the loop has written nothing, so the file
\* is whatever was there when the loop started (the checkpoint loaded for
\* continue_epoch > 0, or none).
C6_CheckpointIsLastImproving ==
    args.save_dir =>
        IF args.max_early_stop # None
        THEN /\ \A i \in 1..Len(epoch_log) :
                    epoch_log[i].saved <=> epoch_log[i].improved
             /\ epoch_log # <<>> => checkpoint =
                    IF Improving(epoch_log) = {} THEN initial_checkpoint
                    ELSE AfterEpoch(epoch_log[Last(Improving(epoch_log))].epoch)
        ELSE /\ \A i \in 1..Len(epoch_log) : epoch_log[i].saved
             /\ epoch_log # <<>> => checkpoint = model_state

\* An improving epoch followed by a non-improving one: the file still holds the
\* earlier model, not the current one.
C6_StaleCheckpointReached ==
    /\ args.save_dir
    /\ args.max_early_stop # None
    /\ Len(epoch_log) >= 2
    /\ epoch_log[Len(epoch_log) - 1].improved
    /\ ~epoch_log[Len(epoch_log)].improved
    /\ checkpoint = AfterEpoch(epoch_log[Len(epoch_log) - 1].epoch)
    /\ checkpoint # model_state

====
